---- MODULE Spec2Model ----
(***************************************************************************)
(* Model of the environment guard (config/environments.ts), the page       *)
(* objects and flows that use it (PaymentPage, SignInPage,                 *)
(* AuthenticationFlow), the Playwright suites and projects, and the        *)
(* subscription health agent's routing function and its cost-aware        *)
(* wrapper, the test data helper, the subscription selection flow, the     *)
(* journey validator and the validateSubscriptionJourneyTool.              *)
(*                                                                         *)
(* Strings the code inspects with includes() or a regular expression are   *)
(* modelled as sequences of fragments; includes() and RegExp.test() are    *)
(* searches over the fragments.                                            *)
(***************************************************************************)
EXTENDS Integers, Sequences, FiniteSets, TLC

VARIABLES
  env,        \* process.env.ENVIRONMENT: <<>> when unset, <<v>> when set to v
  warnings,   \* number of console.warn calls made so far
  firstEnv,   \* history: <<>> before the first resolution, then <<e>>, its result
  ret,        \* outcome of the call completed by the latest step (NoRet if none)
  act,        \* page interaction performed by the latest step (NoAct if none)
  task,       \* the page-object call in flight, suspended at an await
  url,        \* page.url()
  results,    \* the test runner: the runs whose body executed, the runs skipped
  question,   \* the agent: the query's text
  context,    \* the agent: the query's context
  now,        \* the agent: Date.now(), in units of 1/TimeResolution minute
  decision,   \* the agent: what shouldUseBrowserAutomation returned last
  costTracker, \* the wrapper: browserChecksToday, maxBrowserChecksPerDay, lastReset
  day,        \* the wrapper: the calendar day new Date().toDateString() names
  calls,      \* the wrapper: the costAwareAgent calls suspended at their await
  response,   \* the wrapper: what the call completed by the latest step returned
  discarded,  \* history: the count the latest daily reset overwrote (-1: no reset)
  millis,     \* test data: Date.now() in milliseconds
  customers,  \* test data: the test customers generated so far, in order
  browser,    \* the tool: its browser ("none", "open", "closed", "closeFailed")
  tool,       \* the tool: where validateSubscriptionJourneyTool is suspended
  out,        \* the flows and the tool: what the call completed by the latest step gave
  outcomes    \* the site: how each awaited page-object call of a flow settles

vars ==
  <<env, warnings, firstEnv, ret, act, task, url, results, question, context, now,
    decision, costTracker, day, calls, response, discarded, millis, customers,
    browser, tool, out, outcomes>>

\* what the guard and the page objects leave alone
offPage ==
  <<results, question, context, now, decision, costTracker, day, calls, response,
    discarded, millis, customers, browser, tool, out, outcomes>>

\* what the test runner leaves alone
offSuite ==
  <<ret, act, task, url, question, context, now, decision, costTracker, day, calls,
    response, discarded, millis, customers, browser, tool, out, outcomes>>

\* what the agent leaves alone
offRouter ==
  <<env, warnings, firstEnv, ret, act, task, url, results, costTracker, day, calls,
    response, discarded, millis, customers, browser, tool, out, outcomes>>

\* what the cost-aware wrapper leaves alone
offQuota ==
  <<env, warnings, firstEnv, ret, act, task, url, results, question, context, now,
    decision, millis, customers, browser, tool, out, outcomes>>

\* what the test data helpers leave alone
offData ==
  <<env, warnings, firstEnv, ret, act, task, url, results, question, context, now,
    decision, costTracker, day, calls, response, discarded, browser, tool, out,
    outcomes>>

\* what the flows, the journey validator and the tool leave alone
offJourney ==
  <<ret, act, task, url, results, question, context, now, decision, costTracker, day,
    calls, response, discarded, millis, customers, outcomes>>

(***************************************************************************)
(* Bounds                                                                  *)
(***************************************************************************)
MaxWarnings == 2

(***************************************************************************)
(* config/environments.ts                                                  *)
(***************************************************************************)
Unset == <<>>

EnvValues == {"", "staging", "production", "bogus"}

ProcessEnv == {Unset} \cup {<<v>> : v \in EnvValues}

Actions == {"write", "create", "submit"}

Environment == {"staging", "production"}

\* a production entry copied from staging with its flags left on
environmentsPermissiveProduction ==
  [staging |->
     [name |-> "staging",
      baseUrl |-> <<"https://", "www.", "mailsubscriptions.co.uk">>,
      allowWriteOperations |-> TRUE,
      allowDataCreation |-> TRUE,
      allowFormSubmission |-> TRUE,
      maxTestTimeout |-> 60000,
      retries |-> 2],
   production |->
     [name |-> "production",
      baseUrl |-> <<"https://", "www.", "mailsubscriptions.co.uk">>,
      allowWriteOperations |-> FALSE,
      allowDataCreation |-> FALSE,
      allowFormSubmission |-> TRUE,
      maxTestTimeout |-> 30000,
      retries |-> 1]]

environments ==
  [staging |->
     [name |-> "staging",
      baseUrl |-> <<"https://", "www.", "mailsubscriptions.co.uk">>,
      allowWriteOperations |-> TRUE,
      allowDataCreation |-> TRUE,
      allowFormSubmission |-> TRUE,
      maxTestTimeout |-> 60000,
      retries |-> 2],
   production |->
     [name |-> "production",
      baseUrl |-> <<"https://", "www.", "mailsubscriptions.co.uk">>,
      allowWriteOperations |-> FALSE,
      allowDataCreation |-> FALSE,
      allowFormSubmission |-> FALSE,
      maxTestTimeout |-> 30000,
      retries |-> 1]]

\* ?? in place of ||: only an unset variable takes the default
EnvOrDefaultNullish(pe) == IF pe = Unset THEN "staging" ELSE pe[1]

\* process.env.ENVIRONMENT || 'staging': unset and the empty string are falsy
EnvOrDefault(pe) == IF pe = Unset \/ pe[1] = "" THEN "staging" ELSE pe[1]

\* the console.warn calls one call of getCurrentEnvironment makes
WarningsOf(pe) ==
  IF EnvOrDefault(pe) # "staging" /\ EnvOrDefault(pe) # "production"
    THEN <<<<"Unknown environment \"", EnvOrDefault(pe), "\", defaulting to staging">>>>
    ELSE <<>>

\* an unknown value falling back to production
getCurrentEnvironmentFallbackProduction(pe) ==
  IF EnvOrDefault(pe) # "staging" /\ EnvOrDefault(pe) # "production"
    THEN "production"
    ELSE EnvOrDefault(pe)

getCurrentEnvironment(pe) ==
  IF EnvOrDefault(pe) # "staging" /\ EnvOrDefault(pe) # "production"
    THEN "staging"
    ELSE EnvOrDefault(pe)

getEnvironmentConfig(pe) == environments[getCurrentEnvironment(pe)]

\* the 'submit' case missing, the switch falling through to a permissive default
isActionAllowedNoSubmitCase(pe, action) ==
  CASE action = "write"  -> getEnvironmentConfig(pe).allowWriteOperations
    [] action = "create" -> getEnvironmentConfig(pe).allowDataCreation
    [] OTHER -> TRUE

isActionAllowed(pe, action) ==
  CASE action = "write"  -> getEnvironmentConfig(pe).allowWriteOperations
    [] action = "create" -> getEnvironmentConfig(pe).allowDataCreation
    [] action = "submit" -> getEnvironmentConfig(pe).allowFormSubmission

\* the negation of the test dropped
assertThrowsInverted(pe, action) == isActionAllowed(pe, action)

\* whether assertActionAllowed throws
assertThrows(pe, action) == ~isActionAllowed(pe, action)

\* the message of the Error assertActionAllowed throws
assertMessage(pe, action) ==
  <<"SAFETY BLOCK: Action \"", action, "\" is not allowed in ",
    getCurrentEnvironment(pe), " environment">>

\* the console.warn calls one call of assertActionAllowed makes: one resolution
\* inside isActionAllowed, a second one for the message when it throws
assertWarnings(pe, action) ==
  IF assertThrows(pe, action)
    THEN WarningsOf(pe) \o WarningsOf(pe)
    ELSE WarningsOf(pe)

isProduction(pe) == getCurrentEnvironment(pe) = "production"

isStaging(pe) == getCurrentEnvironment(pe) = "staging"

\* String.prototype.includes over a fragment sequence
Includes(s, frag) == \E i \in 1..Len(s) : s[i] = frag

(***************************************************************************)
(* Outcomes of a step                                                      *)
(***************************************************************************)
NoMessage == <<>>

NoResult == [success |-> FALSE, authMethod |-> "-", pageState |-> "-", errors |-> <<>>]

NoRet ==
  [op |-> "none", action |-> "-", env |-> Unset, threw |-> FALSE,
   value |-> "-", allowed |-> FALSE, message |-> NoMessage, warned |-> 0,
   result |-> NoResult]

NoAct == [op |-> "none", kind |-> "-", target |-> "-", callEnv |-> Unset, actEnv |-> Unset]

Idle == [op |-> "idle", rest |-> <<>>, callEnv |-> Unset]

\* the first resolution of the process is remembered
Resolved(pe) == IF firstEnv = <<>> THEN <<getCurrentEnvironment(pe)>> ELSE firstEnv

\* n more console.warn calls; a step that would pass the bound is not taken
Warn(n) == warnings + n <= MaxWarnings /\ warnings' = warnings + n

(***************************************************************************)
(* The host process: process.env is mutable, the page navigates            *)
(***************************************************************************)
SetEnvironment(v) ==
  /\ v # env
  /\ env' = v
  /\ ret' = NoRet
  /\ act' = NoAct
  /\ UNCHANGED <<warnings, firstEnv, task, url>>
  /\ UNCHANGED offPage

(***************************************************************************)
(* Calls of the guard                                                      *)
(***************************************************************************)
CallGetCurrentEnvironment ==
  /\ Warn(Len(WarningsOf(env)))
  /\ firstEnv' = Resolved(env)
  /\ ret' = [NoRet EXCEPT !.op = "getCurrentEnvironment", !.env = env,
                          !.value = getCurrentEnvironment(env),
                          !.warned = Len(WarningsOf(env))]
  /\ act' = NoAct
  /\ UNCHANGED <<env, task, url>>
  /\ UNCHANGED offPage

CallIsActionAllowed(a) ==
  /\ Warn(Len(WarningsOf(env)))
  /\ firstEnv' = Resolved(env)
  /\ ret' = [NoRet EXCEPT !.op = "isActionAllowed", !.action = a, !.env = env,
                          !.allowed = isActionAllowed(env, a),
                          !.warned = Len(WarningsOf(env))]
  /\ act' = NoAct
  /\ UNCHANGED <<env, task, url>>
  /\ UNCHANGED offPage

CallAssertActionAllowed(a) ==
  /\ Warn(Len(assertWarnings(env, a)))
  /\ firstEnv' = Resolved(env)
  /\ ret' = [NoRet EXCEPT !.op = "assertActionAllowed", !.action = a, !.env = env,
                          !.threw = assertThrows(env, a),
                          !.message = IF assertThrows(env, a)
                                        THEN assertMessage(env, a) ELSE NoMessage,
                          !.warned = Len(assertWarnings(env, a))]
  /\ act' = NoAct
  /\ UNCHANGED <<env, task, url>>
  /\ UNCHANGED offPage

(***************************************************************************)
(* The page under test                                                     *)
(***************************************************************************)
Urls ==
  { <<"about:blank">>,
    <<"https://", "www.", "mailsubscriptions.co.uk", "/checkout">>,
    <<"https://", "staging.", "mailsubscriptions.co.uk", "/checkout">>,
    <<"https://", "www.", "staging.", "example.com", "/checkout">>,
    <<"https://", "mymailaccount.co.uk", "/signinOrRegister">>,
    <<"https://", "mymailaccount.co.uk", "/", "password">>,
    <<"https://", "mymailaccount.co.uk", "/", "verify">>,
    <<"https://", "mymailaccount.co.uk", "/", "confirmation">>,
    <<"https://", "pay.example.com", "/", "production", "/checkout">>,
    <<"https://", "test.", "example.com", "/", "production">>,
    <<"https://", "live.", "example.com", "/checkout">>,
    <<"http://", "localhost", ":3000", "/checkout">> }

Navigate(u) ==
  /\ u # url
  /\ url' = u
  /\ ret' = NoRet
  /\ act' = NoAct
  /\ UNCHANGED <<env, warnings, firstEnv, task>>
  /\ UNCHANGED offPage

(***************************************************************************)
(* src/pages/payment-page.ts                                               *)
(***************************************************************************)
prodIndicators == {"www.", "prod.", "live."}

stagingIndicators == {"staging.", "test.", "dev.", "sandbox.", "localhost"}

isLikelyProduction(u, pe) ==
  IF \E ind \in stagingIndicators : Includes(u, ind) THEN FALSE
  ELSE IF \E ind \in prodIndicators : Includes(u, ind) THEN TRUE
  ELSE ~getEnvironmentConfig(pe).allowFormSubmission

\* the console.warn calls of isLikelyProduction: it resolves the environment
\* only when no indicator decides
likelyWarnings(u, pe) ==
  IF \E ind \in stagingIndicators \cup prodIndicators : Includes(u, ind)
    THEN <<>>
    ELSE WarningsOf(pe)

\* a second safety check that looks for the word production only
fillBlockedLiteralOnly(u, pe) == Includes(u, "production")

\* the second safety check of fillPaymentForm
fillBlocked(u, pe) == Includes(u, "production") \/ isLikelyProduction(u, pe)

fillWarnings(u, pe) ==
  IF assertThrows(pe, "submit") THEN assertWarnings(pe, "submit")
  ELSE IF Includes(u, "production") THEN assertWarnings(pe, "submit")
  ELSE assertWarnings(pe, "submit") \o likelyWarnings(u, pe)

\* the awaited Playwright calls of each method, in order
submitPaymentCalls ==
  <<"expect(submitButton).toBeEnabled", "submitButton.click", "page.waitForLoadState">>

fillDirectCalls ==
  <<"cardNumberInput.fill", "expiryInput.fill", "cvcInput.fill", "nameOnCardInput.isVisible">>

fillStripeFrame ==
  <<"cardFrame.cardnumber.fill", "cardFrame.exp-date.fill", "cardFrame.cvc.fill">>

(***************************************************************************)
(* src/pages/signin-page.ts and src/flows/authentication.flow.ts           *)
(***************************************************************************)
waitForReady == <<"expect(pageHeading).toBeVisible", "expect(emailInput).toBeVisible">>

enterEmail ==
  <<"expect(emailInput).toBeVisible", "emailInput.clear", "emailInput.fill",
    "expect(emailInput).toHaveValue">>

clickContinue == <<"expect(continueButton).toBeEnabled", "continueButton.click">>

submitEmail == enterEmail \o clickContinue

authenticateWithEmail == waitForReady \o submitEmail \o <<"page.waitForTimeout">>

SignInOps == {"enterEmail", "clickContinue", "submitEmail", "authenticateWithEmail"}

SignInCalls(op) ==
  CASE op = "enterEmail" -> enterEmail
    [] op = "clickContinue" -> clickContinue
    [] op = "submitEmail" -> submitEmail
    [] op = "authenticateWithEmail" -> authenticateWithEmail

\* the page state authenticateWithEmail reports from the URL after submission
pageStateOf(u) ==
  IF Includes(u, "password") THEN "password"
  ELSE IF Includes(u, "verify") \/ Includes(u, "confirmation") THEN "verification"
  ELSE "signin"

authSuccess(u) ==
  [success |-> TRUE, authMethod |-> "email", pageState |-> pageStateOf(u), errors |-> <<>>]

authFailure(msg) ==
  [success |-> FALSE, authMethod |-> "null", pageState |-> "error", errors |-> <<msg>>]

(***************************************************************************)
(* Playwright calls: what each does to the page                            *)
(***************************************************************************)
Clicks == {"continueButton.click", "submitButton.click"}

Fills ==
  {"emailInput.clear", "emailInput.fill", "cardNumberInput.fill", "expiryInput.fill",
   "cvcInput.fill", "nameOnCardInput.fill", "cardFrame.cardnumber.fill",
   "cardFrame.exp-date.fill", "cardFrame.cvc.fill"}

\* isVisible().catch(() => false): never rejects, yields a boolean
Probes == {"cardNumberInput.isVisible", "nameOnCardInput.isVisible"}

TimeoutMessage == <<"Timeout exceeded">>

Interaction(t, call, pe) ==
  IF call \in Clicks
    THEN [op |-> t.op, kind |-> "click", target |-> call, callEnv |-> t.callEnv, actEnv |-> pe]
  ELSE IF call \in Fills
    THEN [op |-> t.op, kind |-> "fill", target |-> call, callEnv |-> t.callEnv, actEnv |-> pe]
  ELSE NoAct

\* what a method returns when its last call resolved
Completion(t, u) ==
  [NoRet EXCEPT !.op = t.op, !.env = t.callEnv,
                !.result = IF t.op = "authenticateWithEmail" THEN authSuccess(u) ELSE NoResult]

\* a flow without its catch block: every method lets the error through
FailureRethrows(t, msg) ==
  [NoRet EXCEPT !.op = t.op, !.env = t.callEnv, !.threw = TRUE, !.message = msg]

\* what a method does when an awaited call rejects: authenticateWithEmail catches
\* and returns an error result, every other method lets the error through
Failure(t, msg) ==
  IF t.op = "authenticateWithEmail"
    THEN [NoRet EXCEPT !.op = t.op, !.env = t.callEnv, !.result = authFailure(msg)]
    ELSE [NoRet EXCEPT !.op = t.op, !.env = t.callEnv, !.threw = TRUE, !.message = msg]

(***************************************************************************)
(* Page-object methods, one step per await                                 *)
(***************************************************************************)
StartSignIn(op) ==
  /\ task = Idle
  /\ task' = [op |-> op, rest |-> SignInCalls(op), callEnv |-> env]
  /\ ret' = NoRet
  /\ act' = NoAct
  /\ UNCHANGED <<env, warnings, firstEnv, url>>
  /\ UNCHANGED offPage

StartSubmitPayment ==
  /\ task = Idle
  /\ Warn(Len(assertWarnings(env, "submit")))
  /\ firstEnv' = Resolved(env)
  /\ IF assertThrows(env, "submit")
       THEN /\ ret' = [NoRet EXCEPT !.op = "submitPayment", !.env = env, !.threw = TRUE,
                                    !.message = assertMessage(env, "submit")]
            /\ task' = Idle
       ELSE /\ ret' = NoRet
            /\ task' = [op |-> "submitPayment", rest |-> submitPaymentCalls, callEnv |-> env]
  /\ act' = NoAct
  /\ UNCHANGED <<env, url>>
  /\ UNCHANGED offPage

StartFillPaymentForm ==
  /\ task = Idle
  /\ Warn(Len(fillWarnings(url, env)))
  /\ firstEnv' = Resolved(env)
  /\ IF assertThrows(env, "submit")
       THEN /\ ret' = [NoRet EXCEPT !.op = "fillPaymentForm", !.env = env, !.threw = TRUE,
                                    !.message = assertMessage(env, "submit")]
            /\ task' = Idle
       ELSE IF fillBlocked(url, env)
         THEN /\ ret' = [NoRet EXCEPT
                           !.op = "fillPaymentForm", !.env = env, !.threw = TRUE,
                           !.message = <<"SAFETY: Payment form fill blocked - ",
                                         "production", " environment detected">>]
              /\ task' = Idle
         ELSE /\ ret' = NoRet
              /\ task' = [op |-> "fillPaymentForm", rest |-> <<"cardNumberInput.isVisible">>,
                          callEnv |-> env]
  /\ act' = NoAct
  /\ UNCHANGED <<env, url>>
  /\ UNCHANGED offPage

\* the awaited call resolves: its interaction reaches the page, the method goes on
Resolve ==
  /\ task # Idle
  /\ Head(task.rest) \notin Probes
  /\ act' = Interaction(task, Head(task.rest), env)
  /\ IF Len(task.rest) = 1
       THEN /\ task' = Idle
            /\ ret' = Completion(task, url)
       ELSE /\ task' = [task EXCEPT !.rest = Tail(task.rest)]
            /\ ret' = NoRet
  /\ UNCHANGED <<env, warnings, firstEnv, url>>
  /\ UNCHANGED offPage

\* the awaited call rejects (a timeout, a detached element)
Reject ==
  /\ task # Idle
  /\ Head(task.rest) \notin Probes
  /\ task' = Idle
  /\ ret' = Failure(task, TimeoutMessage)
  /\ act' = NoAct
  /\ UNCHANGED <<env, warnings, firstEnv, url>>
  /\ UNCHANGED offPage

\* fillPaymentForm branches on what isVisible yields
Probe(visible) ==
  /\ task # Idle
  /\ Head(task.rest) \in Probes
  /\ act' = NoAct
  /\ IF Head(task.rest) = "cardNumberInput.isVisible"
       THEN /\ task' = [task EXCEPT !.rest = IF visible THEN fillDirectCalls ELSE fillStripeFrame]
            /\ ret' = NoRet
       ELSE IF visible
         THEN /\ task' = [task EXCEPT !.rest = <<"nameOnCardInput.fill">>]
              /\ ret' = NoRet
         ELSE /\ task' = Idle
              /\ ret' = Completion(task, url)
  /\ UNCHANGED <<env, warnings, firstEnv, url>>
  /\ UNCHANGED offPage

(***************************************************************************)
(* playwright.config.ts and the test files: which tests run                *)
(***************************************************************************)
\* the projects of playwright.config.ts; none sets testIgnore or grep
Projects ==
  { [name |-> "smoke-chromium",      testDir |-> "./tests/smoke"],
    [name |-> "smoke-firefox",       testDir |-> "./tests/smoke"],
    [name |-> "smoke-webkit",        testDir |-> "./tests/smoke"],
    [name |-> "regression-chromium", testDir |-> "./tests/regression"],
    [name |-> "e2e-chromium",        testDir |-> "./tests/e2e"],
    [name |-> "mobile-chrome",       testDir |-> "./tests/smoke"],
    [name |-> "mobile-safari",       testDir |-> "./tests/smoke"] }

\* tests of each describe block; skipInProduction says whether the block
\* declares test.skip(() => getCurrentEnvironment() === 'production', ...)
Tests ==
  { [dir |-> "./tests/e2e", group |-> "Payment Flow - E2E Tests",
     title |-> "should reach authentication stage from subscription selection",
     skipInProduction |-> TRUE],
    [dir |-> "./tests/e2e", group |-> "Payment Flow - E2E Tests",
     title |-> "should use HTTPS for all requests",
     skipInProduction |-> TRUE],
    [dir |-> "./tests/e2e", group |-> "New Customer Journey - E2E Tests",
     title |-> "should complete basic subscription path",
     skipInProduction |-> FALSE],
    [dir |-> "./tests/e2e", group |-> "New Customer Journey - E2E Tests",
     title |-> "should reject clearly invalid email format",
     skipInProduction |-> FALSE],
    [dir |-> "./tests/regression", group |-> "Subscription Variants - Regression Tests",
     title |-> "should display FAQ section heading",
     skipInProduction |-> FALSE],
    [dir |-> "./tests/regression", group |-> "Subscription Variants - Regression Tests",
     title |-> "should handle page reload gracefully",
     skipInProduction |-> FALSE],
    [dir |-> "./tests/smoke", group |-> "Subscription Page - Smoke Tests",
     title |-> "should load subscription page successfully",
     skipInProduction |-> FALSE] }

\* a project runs the tests under its testDir
Runs == {r \in Projects \X Tests : r[2].dir = r[1].testDir}

\* a run is reported under the project's name and the test's title
RunId(r) == <<r[1].name, r[2].title>>

\* the test.skip callback of a describe block, evaluated for each of its tests
skipCondition(t, pe) == t.skipInProduction /\ getCurrentEnvironment(pe) = "production"

skipWarnings(t, pe) == IF t.skipInProduction THEN WarningsOf(pe) ELSE <<>>

\* the runner takes one test of one project: the skip callback decides whether
\* the hooks and the body run
RunTest(r) ==
  /\ RunId(r) \notin results.executed \cup results.skipped
  /\ Warn(Len(skipWarnings(r[2], env)))
  /\ firstEnv' = IF r[2].skipInProduction THEN Resolved(env) ELSE firstEnv
  /\ results' = IF skipCondition(r[2], env)
                  THEN [results EXCEPT !.skipped = @ \cup {RunId(r)}]
                  ELSE [results EXCEPT !.executed = @ \cup {RunId(r)}]
  /\ UNCHANGED env
  /\ UNCHANGED offSuite

(***************************************************************************)
(* src/agents/subscription-health-agent.ts: the routing function           *)
(***************************************************************************)
MaxFragments == 2

MaxNow == 11

TimeResolution == 2

FreshMinutes == 5

\* the fragments a question is made of: a fragment is a word, a stem, a space
\* or a line break
Fragments == {"is", "Price", "BROKEN", "work", "check", "journey", "\n"}

\* the 'i' flag: matching is on the lower-cased text
Lower(f) ==
  CASE f = "Price" -> "price"
    [] f = "BROKEN" -> "broken"
    [] OTHER -> f

\* a pattern is a sequence of atoms: a literal, ".*", or an optional group
BROWSER_REQUIRED_PATTERNS ==
  { <<"work", "(s|ing)?">>,
    <<"function", "(al|ing)?">>,
    <<"broken">>,
    <<"check", ".*", "journey">>,
    <<"test", ".*", "flow">>,
    <<"validate">>,
    <<"can", ".*", "subscribe">>,
    <<"can", ".*", "sign", ".*", "up">> }

CACHE_SUFFICIENT_PATTERNS ==
  { <<"price">>,
    <<"cost">>,
    <<"how", " ", "much">>,
    <<"features">>,
    <<"what", ".*", "include">> }

OptionalGroup(atom) ==
  CASE atom = "(s|ing)?" -> {"s", "ing"}
    [] atom = "(al|ing)?" -> {"al", "ing"}
    [] OTHER -> {}

RECURSIVE MatchAt(_, _, _, _)
\* whether atoms i.. of the pattern match the text from position j
MatchAt(pat, i, text, j) ==
  IF i > Len(pat) THEN TRUE
  ELSE IF pat[i] = ".*"
    THEN \E k \in j..(Len(text) + 1) :
            /\ \A m \in j..(k - 1) : Lower(text[m]) # "\n"
            /\ MatchAt(pat, i + 1, text, k)
  ELSE IF OptionalGroup(pat[i]) # {}
    THEN \/ MatchAt(pat, i + 1, text, j)
         \/ /\ j <= Len(text)
            /\ Lower(text[j]) \in OptionalGroup(pat[i])
            /\ MatchAt(pat, i + 1, text, j + 1)
  ELSE /\ j <= Len(text)
       /\ Lower(text[j]) = pat[i]
       /\ MatchAt(pat, i + 1, text, j + 1)

\* RegExp.prototype.test: a match starting anywhere
Test(pat, text) == \E j \in 1..(Len(text) + 1) : MatchAt(pat, 1, text, j)

Undefined == "undefined"

\* lastCheckTimestamp: undefined, the empty string, a string Date cannot parse,
\* or the ISO string of the instant t
NoTimestamp == [s |-> Undefined, t |-> 0]

Timestamps ==
  {NoTimestamp, [s |-> "", t |-> 0], [s |-> "not a date", t |-> 0]}
    \cup {[s |-> "iso", t |-> t] : t \in {0, MaxNow + 1}}

NoContext == [urgency |-> Undefined, lastCheckTimestamp |-> NoTimestamp, cachedHealth |-> Undefined]

Contexts ==
  [urgency : {Undefined, "low", "high"},
   lastCheckTimestamp : Timestamps,
   cachedHealth : {Undefined, "true", "false"}]

RECURSIVE SeqsUpTo(_, _)
SeqsUpTo(S, n) ==
  IF n = 0 THEN {<<>>}
  ELSE SeqsUpTo(S, n - 1) \cup {Append(q, f) : q \in SeqsUpTo(S, n - 1), f \in S}

\* the question "is it working"
IsItWorking == <<"is", " ", "it", " ", "work", "ing">>

Questions == SeqsUpTo(Fragments, MaxFragments) \cup {IsItWorking}

\* Math.round((now - t) / TimeResolution): half a minute rounds up
RoundedMinutes(age) == (2 * age + TimeResolution) \div (2 * TimeResolution)

\* the comparison with the five minutes made inclusive
IsRecentInclusive(ts, t) ==
  /\ ts.s \notin {Undefined, ""}
  /\ ts.s # "not a date"
  /\ t - ts.t <= FreshMinutes * TimeResolution

\* context.lastCheckTimestamp is truthy, it parses, and it is less than five
\* minutes old
IsRecent(ts, t) ==
  /\ ts.s \notin {Undefined, ""}
  /\ ts.s # "not a date"
  /\ t - ts.t < FreshMinutes * TimeResolution

\* the context consulted before the pattern lists
shouldUseBrowserAutomationContextFirst(q, ctx, t) ==
  IF ctx.urgency = "high"
    THEN [shouldUse |-> TRUE,
          reason |-> <<"High urgency requires fresh browser validation">>]
  ELSE IF IsRecent(ctx.lastCheckTimestamp, t) /\ ctx.cachedHealth # Undefined
    THEN [shouldUse |-> FALSE,
          reason |-> <<"Recent check (", RoundedMinutes(t - ctx.lastCheckTimestamp.t),
                       " min ago) available">>]
  ELSE IF \E pat \in CACHE_SUFFICIENT_PATTERNS : Test(pat, q)
    THEN [shouldUse |-> FALSE,
          reason |-> <<"Question can be answered from known data without browser check">>]
  ELSE IF \E pat \in BROWSER_REQUIRED_PATTERNS : Test(pat, q)
    THEN [shouldUse |-> TRUE,
          reason |-> <<"Question requires live validation of journey functionality">>]
  ELSE [shouldUse |-> TRUE,
        reason |-> <<"Default to browser check for authoritative answer">>]

\* the default branch answering from the cache
shouldUseBrowserAutomationCacheDefault(q, ctx, t) ==
  IF \E pat \in CACHE_SUFFICIENT_PATTERNS : Test(pat, q)
    THEN [shouldUse |-> FALSE,
          reason |-> <<"Question can be answered from known data without browser check">>]
  ELSE IF \E pat \in BROWSER_REQUIRED_PATTERNS : Test(pat, q)
    THEN [shouldUse |-> TRUE,
          reason |-> <<"Question requires live validation of journey functionality">>]
  ELSE IF ctx.urgency = "high"
    THEN [shouldUse |-> TRUE,
          reason |-> <<"High urgency requires fresh browser validation">>]
  ELSE IF IsRecent(ctx.lastCheckTimestamp, t) /\ ctx.cachedHealth # Undefined
    THEN [shouldUse |-> FALSE,
          reason |-> <<"Recent check (", RoundedMinutes(t - ctx.lastCheckTimestamp.t),
                       " min ago) available">>]
  ELSE [shouldUse |-> FALSE, reason |-> <<>>]

\* the two pattern lists checked in the other order
shouldUseBrowserAutomationBrowserFirst(q, ctx, t) ==
  IF \E pat \in BROWSER_REQUIRED_PATTERNS : Test(pat, q)
    THEN [shouldUse |-> TRUE,
          reason |-> <<"Question requires live validation of journey functionality">>]
  ELSE IF \E pat \in CACHE_SUFFICIENT_PATTERNS : Test(pat, q)
    THEN [shouldUse |-> FALSE,
          reason |-> <<"Question can be answered from known data without browser check">>]
  ELSE IF ctx.urgency = "high"
    THEN [shouldUse |-> TRUE,
          reason |-> <<"High urgency requires fresh browser validation">>]
  ELSE IF IsRecent(ctx.lastCheckTimestamp, t) /\ ctx.cachedHealth # Undefined
    THEN [shouldUse |-> FALSE,
          reason |-> <<"Recent check (", RoundedMinutes(t - ctx.lastCheckTimestamp.t),
                       " min ago) available">>]
  ELSE [shouldUse |-> TRUE,
        reason |-> <<"Default to browser check for authoritative answer">>]

shouldUseBrowserAutomation(q, ctx, t) ==
  IF \E pat \in CACHE_SUFFICIENT_PATTERNS : Test(pat, q)
    THEN [shouldUse |-> FALSE,
          reason |-> <<"Question can be answered from known data without browser check">>]
  ELSE IF \E pat \in BROWSER_REQUIRED_PATTERNS : Test(pat, q)
    THEN [shouldUse |-> TRUE,
          reason |-> <<"Question requires live validation of journey functionality">>]
  ELSE IF ctx.urgency = "high"
    THEN [shouldUse |-> TRUE,
          reason |-> <<"High urgency requires fresh browser validation">>]
  ELSE IF IsRecent(ctx.lastCheckTimestamp, t) /\ ctx.cachedHealth # Undefined
    THEN [shouldUse |-> FALSE,
          reason |-> <<"Recent check (", RoundedMinutes(t - ctx.lastCheckTimestamp.t),
                       " min ago) available">>]
  ELSE [shouldUse |-> TRUE,
        reason |-> <<"Default to browser check for authoritative answer">>]

NoDecision == [asked |-> FALSE, shouldUse |-> FALSE, reason |-> <<>>]

\* the agent routes the query
Ask ==
  /\ LET d == shouldUseBrowserAutomation(question, context, now)
     IN  decision' = [asked |-> TRUE, shouldUse |-> d.shouldUse, reason |-> d.reason]
  /\ UNCHANGED <<question, context, now>>
  /\ UNCHANGED offRouter

\* time passes between two queries
Tick ==
  /\ now < MaxNow
  /\ now' = now + 1
  /\ UNCHANGED <<question, context, decision>>
  /\ UNCHANGED offRouter

(***************************************************************************)
(* The cost-aware wrapper (costAwareAgent) around subscriptionHealthAgent  *)
(***************************************************************************)
MaxBrowserChecksPerDay == 2

MaxInFlight == 2

MaxDay == 1

\* the queries the wrapper is called with
AgentQueries ==
  [question : {<<"Price">>, <<"BROKEN">>, <<"is">>},
   context : {NoContext, [NoContext EXCEPT !.urgency = "high"]}]

\* what validateSubscriptionJourneyTool resolves with: a healthy journey, or
\* the output of its catch branch
ToolResults ==
  { [healthy |-> TRUE, errors |-> <<>>,
     recommendation |-> "Journey is healthy. No action required."],
    [healthy |-> FALSE, errors |-> <<"error.message">>,
     recommendation |-> "CRITICAL: Tool execution failed. Check browser setup."] }

generateAnswer(result) ==
  IF result.healthy
    THEN <<"The subscription journey is healthy. All stages are functioning correctly.">>
    ELSE <<"The subscription journey has issues: ", result.recommendation,
           "Errors found: ", result.errors>>

\* question.toLowerCase()
toLowerCase(q) == [i \in 1..Len(q) |-> Lower(q[i])]

generateCachedAnswer(q) ==
  IF Includes(toLowerCase(q), "price") \/ Includes(toLowerCase(q), "cost")
    THEN <<"DailyMail+ subscription pricing:">>
  ELSE IF Includes(toLowerCase(q), "feature")
    THEN <<"DailyMail+ features:">>
  ELSE <<"I can answer this based on known information without running a browser check.">>

\* what subscriptionHealthAgent returns for a query it decided d about, the
\* tool having resolved with result on the browser path
AgentResponse(query, d, result) ==
  IF d.shouldUse
    THEN [answer |-> generateAnswer(result),
          usedBrowserAutomation |-> TRUE,
          reasoning |-> d.reason,
          data |-> result,
          cost |-> [timeMs |-> "elapsed", browserUsed |-> TRUE]]
    ELSE [answer |-> generateCachedAnswer(query.question),
          usedBrowserAutomation |-> FALSE,
          reasoning |-> d.reason,
          data |-> Undefined,
          cost |-> [timeMs |-> "elapsed", browserUsed |-> FALSE]]

\* the forced cache-only response
LimitResponse(tracker) ==
  [answer |-> <<"Browser check limit reached for today. Using cached data.">>,
   usedBrowserAutomation |-> FALSE,
   reasoning |-> <<"Daily limit of ", tracker.maxBrowserChecksPerDay,
                   " browser checks reached">>,
   data |-> Undefined,
   cost |-> [timeMs |-> 0, browserUsed |-> FALSE]]

\* a reset that moves lastReset and keeps the count
ResetKeepsCount(tracker, d) ==
  IF tracker.lastReset # d THEN [tracker EXCEPT !.lastReset = d] ELSE tracker

\* reset the daily counter if needed
Reset(tracker, d) ==
  IF tracker.lastReset # d
    THEN [tracker EXCEPT !.browserChecksToday = 0, !.lastReset = d]
    ELSE tracker

\* the limit test with > in place of >=
atLimitStrict(tracker) == tracker.browserChecksToday > tracker.maxBrowserChecksPerDay

\* check if we're at limit
atLimit(tracker) == tracker.browserChecksToday >= tracker.maxBrowserChecksPerDay

\* a counter that counts every answer
TrackAlways(tracker, res) == [tracker EXCEPT !.browserChecksToday = @ + 1]

\* track if browser was used
Track(tracker, res) ==
  IF res.usedBrowserAutomation
    THEN [tracker EXCEPT !.browserChecksToday = @ + 1]
    ELSE tracker

\* no call was completed by the latest step
NoResponse == [op |-> "none"]

\* costAwareAgent(query) up to its await: the daily reset, the limit check,
\* and the synchronous start of subscriptionHealthAgent, which decides the
\* path and on the browser path starts the tool
costAwareAgent(query) ==
  /\ LET tracker == Reset(costTracker, day)
     IN  /\ costTracker' = tracker
         /\ discarded' = IF costTracker.lastReset # day
                            THEN costTracker.browserChecksToday
                            ELSE discarded
         /\ IF atLimit(tracker)
              THEN /\ response' = [op |-> "costAwareAgent", query |-> query,
                                   res |-> LimitResponse(tracker)]
                   /\ UNCHANGED calls
              ELSE /\ Len(calls) < MaxInFlight
                   /\ calls' = Append(calls,
                        [query |-> query,
                         decision |-> shouldUseBrowserAutomation(query.question,
                                                                 query.context, now),
                         day |-> day])
                   /\ response' = NoResponse
  /\ UNCHANGED day
  /\ UNCHANGED offQuota

\* the awaited subscriptionHealthAgent call of the i-th suspended call
\* resolves and costAwareAgent runs to its return
Continue(i, result) ==
  /\ i \in 1..Len(calls)
  /\ LET c == calls[i]
         res == AgentResponse(c.query, c.decision, result)
     IN  /\ costTracker' = Track(costTracker, res)
         /\ response' = [op |-> "costAwareAgent", query |-> c.query, res |-> res]
  /\ calls' = [j \in 1..(Len(calls) - 1) |-> IF j < i THEN calls[j] ELSE calls[j + 1]]
  /\ UNCHANGED <<day, discarded>>
  /\ UNCHANGED offQuota

\* a caller that awaits each call before making the next
SequentialCall(query) ==
  /\ calls = <<>>
  /\ costAwareAgent(query)

\* the date changes
Midnight ==
  /\ day < MaxDay
  /\ day' = day + 1
  /\ response' = NoResponse
  /\ UNCHANGED <<costTracker, calls, discarded>>
  /\ UNCHANGED offQuota

(***************************************************************************)
(* src/utils/test-data.ts                                                  *)
(***************************************************************************)
MaxMillis == 2

MaxCustomers == 3

\* the prefixes generateTestCustomer is called with ('test' is the default)
Prefixes == {"test", "e2e"}

\* generateTestCustomer(prefix) when Date.now() reads timestamp
generateTestCustomer(prefix, timestamp) ==
  [email |-> <<prefix, "+", timestamp, "@testpilotai.com">>,
   firstName |-> "Test",
   lastName |-> "Customer",
   country |-> "GB"]

\* a test's beforeEach, in any worker, generates its customer
GenerateTestCustomer(prefix) ==
  /\ Len(customers) < MaxCustomers
  /\ customers' = Append(customers, generateTestCustomer(prefix, millis))
  /\ UNCHANGED millis
  /\ UNCHANGED offData

\* the system clock moves on by a millisecond
TickMillis ==
  /\ millis < MaxMillis
  /\ millis' = millis + 1
  /\ UNCHANGED customers
  /\ UNCHANGED offData

(***************************************************************************)
(* The flows (authentication.flow.ts), the journey validator and the tool  *)
(* validateSubscriptionJourneyTool.  The awaited page-object calls of a    *)
(* flow are its inputs: each either resolves (TRUE) or rejects (FALSE).    *)
(* Timestamps and durations are left out of the results.                   *)
(***************************************************************************)
\* goto, verifyPremiumTierDisplayed, verifyBasicTierDisplayed and
\* getSubscriptionLinks (two links or more, fewer, or a rejection)
PageOutcomes ==
  [goto : BOOLEAN, premium : BOOLEAN, basic : BOOLEAN, links : {"two", "few", "fail"}]

\* goto, what isLoaded returns, and select<Tier>Subscription
ExecuteOutcomes == [goto : BOOLEAN, loaded : BOOLEAN, select : BOOLEAN]

\* waitForReady, verifyFormDisplayed, verifySocialSignInOptions, verifyFooterLinks
SignInOutcomes == [ready : BOOLEAN, form : BOOLEAN, social : BOOLEAN, footer : BOOLEAN]

JourneyOutcomes == [page : PageOutcomes, execute : ExecuteOutcomes, signin : SignInOutcomes]

\* a site on which every call resolves
AllResolve ==
  [page |-> [goto |-> TRUE, premium |-> TRUE, basic |-> TRUE, links |-> "two"],
   execute |-> [goto |-> TRUE, loaded |-> TRUE, select |-> TRUE],
   signin |-> [ready |-> TRUE, form |-> TRUE, social |-> TRUE, footer |-> TRUE]]

Tiers == {"premium", "basic"}

\* issues.some((i) => i.includes(word))
SomeIncludes(issues, word) == \E k \in 1..Len(issues) : Includes(issues[k], word)

validateSubscriptionPage(o) ==
  IF ~o.goto
    THEN [isValid |-> FALSE, issues |-> << <<"Failed to load page: ">> \o TimeoutMessage >>]
    ELSE LET issues ==
               (IF o.premium THEN <<>>
                  ELSE << <<"Premium", " tier not displayed correctly">> >>)
               \o (IF o.basic THEN <<>>
                     ELSE << <<"Basic", " tier not displayed correctly">> >>)
               \o (CASE o.links = "two" -> <<>>
                      [] o.links = "few" -> << <<"Missing subscription ", "CTA", "s">> >>
                      [] o.links = "fail" ->
                           << <<"Failed to retrieve subscription ", "CTA", "s">> >>)
         IN  [isValid |-> issues = <<>>, issues |-> issues]

buildResult(success, tier, pageReached, errors) ==
  [success |-> success, tier |-> tier, pageReached |-> pageReached, errors |-> errors]

\* execute with its try block bare: an error of a step leaves the method
executeNoCatch(tier, o) ==
  IF ~o.goto \/ (o.loaded /\ ~o.select)
    THEN [threw |-> TRUE, message |-> TimeoutMessage,
          result |-> buildResult(FALSE, "null", "error", <<>>)]
  ELSE IF ~o.loaded
    THEN [threw |-> FALSE, message |-> NoMessage,
          result |-> buildResult(FALSE, "null", "subscription",
                                 << <<"Subscription page did not load correctly">> >>)]
  ELSE [threw |-> FALSE, message |-> NoMessage,
        result |-> buildResult(TRUE, tier, "signin", <<>>)]

\* SubscriptionSelectionFlow.execute(tier)
execute(tier, o) ==
  IF ~o.goto
    THEN [threw |-> FALSE, message |-> NoMessage,
          result |-> buildResult(FALSE, "null", "error", <<TimeoutMessage>>)]
  ELSE IF ~o.loaded
    THEN [threw |-> FALSE, message |-> NoMessage,
          result |-> buildResult(FALSE, "null", "subscription",
                                 << <<"Subscription page did not load correctly">> >>)]
  ELSE IF ~o.select
    THEN [threw |-> FALSE, message |-> NoMessage,
          result |-> buildResult(FALSE, "null", "subscription", <<TimeoutMessage>>)]
  ELSE [threw |-> FALSE, message |-> NoMessage,
        result |-> buildResult(TRUE, tier, "signin", <<>>)]

validateSignInPage(o) ==
  IF ~o.ready
    THEN [isValid |-> FALSE, issues |-> << <<"Sign-in page did not load">> >>,
          socialProvidersAvailable |-> <<>>]
    ELSE LET issues ==
               (IF o.form THEN <<>> ELSE << <<"Sign-in form not displayed correctly">> >>)
               \o (IF o.social THEN <<>>
                     ELSE << <<"Social sign-in options not fully available">> >>)
               \o (IF o.footer THEN <<>> ELSE << <<"Footer links missing">> >>)
         IN  [isValid |-> issues = <<>>,
              issues |-> issues,
              socialProvidersAvailable |->
                IF o.social THEN <<"Apple", "Google", "Microsoft", "Facebook">> ELSE <<>>]

\* the overall health with the CTAs left out of it
overallHealthWithoutCtas(stages) ==
  /\ stages.subscriptionPage.reachable
  /\ stages.subscriptionPage.premiumTierVisible
  /\ stages.signInPage.reachable

\* determine overall health
overallHealth(stages) ==
  /\ stages.subscriptionPage.reachable
  /\ stages.subscriptionPage.premiumTierVisible
  /\ stages.subscriptionPage.ctasWorking
  /\ stages.signInPage.reachable

\* validateSubscriptionJourney(page).  None of the three flow methods it
\* awaits can reject, so its own catch block is never entered
validateSubscriptionJourney(o) ==
  LET pageValidation == validateSubscriptionPage(o.page)
      selectionResult == execute("premium", o.execute).result
      signInValidation == validateSignInPage(o.signin)
      stages ==
        [subscriptionPage |->
           [reachable |-> TRUE,
            premiumTierVisible |-> ~SomeIncludes(pageValidation.issues, "Premium"),
            basicTierVisible |-> ~SomeIncludes(pageValidation.issues, "Basic"),
            ctasWorking |-> ~SomeIncludes(pageValidation.issues, "CTA")],
         signInPage |->
           IF selectionResult.success
             THEN [reachable |-> TRUE,
                   formFunctional |-> signInValidation.isValid,
                   socialOptionsAvailable |->
                     Len(signInValidation.socialProvidersAvailable) >= 3]
             ELSE [reachable |-> FALSE, formFunctional |-> FALSE,
                   socialOptionsAvailable |-> FALSE]]
  IN  [healthy |-> overallHealth(stages),
       stages |-> stages,
       errors |-> pageValidation.issues
                    \o (IF selectionResult.success THEN signInValidation.issues
                                                    ELSE selectionResult.errors)]

generateRecommendation(result) ==
  IF result.healthy
    THEN <<"Journey is healthy. No action required.">>
    ELSE <<"Issues found: ">>
         \o (IF result.stages.subscriptionPage.reachable THEN <<>>
               ELSE <<"Subscription page is unreachable - check server status">>)
         \o (IF result.stages.subscriptionPage.premiumTierVisible THEN <<>>
               ELSE <<"Premium tier not visible - check page content">>)
         \o (IF result.stages.subscriptionPage.ctasWorking THEN <<>>
               ELSE <<"CTAs not working - check navigation">>)
         \o (IF result.stages.signInPage.reachable THEN <<>>
               ELSE <<"Sign-in page unreachable - check authentication flow">>)

\* the output the tool builds from the validator's result
ToolOutput(envName, result) ==
  [caught |-> FALSE,
   healthy |-> result.healthy,
   environment |-> envName,
   tier |-> "premium",
   stages |-> result.stages,
   errors |-> result.errors,
   recommendation |-> generateRecommendation(result)]

\* the output of the tool's catch block
ToolErrorOutput(envName, msg) ==
  [caught |-> TRUE,
   healthy |-> FALSE,
   environment |-> envName,
   tier |-> "premium",
   stages |->
     [subscriptionPage |-> [reachable |-> FALSE, premiumTierVisible |-> FALSE,
                            basicTierVisible |-> FALSE, ctasWorking |-> FALSE],
      signInPage |-> [reachable |-> FALSE, formFunctional |-> FALSE,
                      socialOptionsAvailable |-> FALSE]],
   errors |-> <<msg>>,
   recommendation |-> <<"CRITICAL: Tool execution failed. Check browser setup.">>]

NoOut == [op |-> "none"]

ToolIdle == [pc |-> "idle"]

\* the call after pc in the try block
NextCall(pc) ==
  CASE pc = "launch" -> "newContext"
    [] pc = "newContext" -> "newPage"
    [] pc = "newPage" -> "goto"
    [] pc = "goto" -> "validate"

\* a tool that returns from try or catch without its finally block
FinallySkipsClose(b, t, output) ==
  [tool |-> ToolIdle,
   out |-> [op |-> "validateSubscriptionJourneyTool", threw |-> FALSE,
            launched |-> b # "none", output |-> output]]

\* the finally block entered with the value try or catch returns: it awaits
\* browser.close() if a browser was launched, or else the call completes
Finally(b, t, output) ==
  IF b # "none"
    THEN [tool |-> [pc |-> "close", envName |-> t.envName, pending |-> output],
          out |-> NoOut]
    ELSE [tool |-> ToolIdle,
          out |-> [op |-> "validateSubscriptionJourneyTool", threw |-> FALSE,
                   launched |-> FALSE, output |-> output]]

SubscriptionSelectionFlowExecute(tier) ==
  /\ tool = ToolIdle
  /\ out' = [op |-> "execute", tier |-> tier,
             threw |-> execute(tier, outcomes.execute).threw,
             result |-> execute(tier, outcomes.execute).result]
  /\ UNCHANGED <<env, warnings, firstEnv, browser, tool>>
  /\ UNCHANGED offJourney

CallValidateSubscriptionJourney ==
  /\ tool = ToolIdle
  /\ out' = [op |-> "validateSubscriptionJourney",
             result |-> validateSubscriptionJourney(outcomes)]
  /\ UNCHANGED <<env, warnings, firstEnv, browser, tool>>
  /\ UNCHANGED offJourney

\* validateSubscriptionJourneyTool(input) up to its first await
StartTool ==
  /\ tool = ToolIdle
  /\ Warn(Len(WarningsOf(env)))
  /\ firstEnv' = Resolved(env)
  /\ tool' = [pc |-> "launch", envName |-> getCurrentEnvironment(env), pending |-> NoOut]
  /\ browser' = "none"
  /\ out' = NoOut
  /\ UNCHANGED env
  /\ UNCHANGED offJourney

\* chromium.launch, browser.newContext, context.newPage or page.goto settles
ToolStep(ok) ==
  /\ tool.pc \in {"launch", "newContext", "newPage", "goto"}
  /\ LET b == IF tool.pc = "launch" /\ ok THEN "open" ELSE browser
         f == Finally(b, tool, ToolErrorOutput(tool.envName, TimeoutMessage))
     IN  /\ browser' = b
         /\ tool' = IF ok THEN [tool EXCEPT !.pc = NextCall(tool.pc)] ELSE f.tool
         /\ out' = IF ok THEN NoOut ELSE f.out
  /\ UNCHANGED <<env, warnings, firstEnv>>
  /\ UNCHANGED offJourney

\* validateSubscriptionJourney(page) resolves and the try block returns
ToolValidate ==
  /\ tool.pc = "validate"
  /\ LET f == Finally(browser, tool,
                      ToolOutput(tool.envName, validateSubscriptionJourney(outcomes)))
     IN  /\ tool' = f.tool
         /\ out' = f.out
  /\ UNCHANGED <<env, warnings, firstEnv, browser>>
  /\ UNCHANGED offJourney

\* browser.close() settles: the call returns what try or catch returned, or
\* rejects with the error of close()
ToolClose(ok) ==
  /\ tool.pc = "close"
  /\ browser' = IF ok THEN "closed" ELSE "closeFailed"
  /\ tool' = ToolIdle
  /\ out' = IF ok
              THEN [op |-> "validateSubscriptionJourneyTool", threw |-> FALSE,
                    launched |-> TRUE, output |-> tool.pending]
              ELSE [op |-> "validateSubscriptionJourneyTool", threw |-> TRUE,
                    launched |-> TRUE, output |-> NoOut]
  /\ UNCHANGED <<env, warnings, firstEnv>>
  /\ UNCHANGED offJourney

(***************************************************************************)
(* Specifications                                                          *)
(***************************************************************************)
ProcessStart ==
  /\ warnings = 0
  /\ firstEnv = <<>>
  /\ ret = NoRet
  /\ act = NoAct
  /\ task = Idle
  /\ url = <<"about:blank">>
  /\ results = [executed |-> {}, skipped |-> {}]
  /\ now = 0
  /\ decision = NoDecision
  /\ costTracker = [browserChecksToday |-> 0,
                    maxBrowserChecksPerDay |-> MaxBrowserChecksPerDay,
                    lastReset |-> 0]
  /\ day = 0
  /\ calls = <<>>
  /\ response = NoResponse
  /\ discarded = -1
  /\ millis = 0
  /\ customers = <<>>
  /\ browser = "none"
  /\ tool = ToolIdle
  /\ out = NoOut

Init ==
  /\ ProcessStart
  /\ env \in ProcessEnv
  /\ question = <<>>
  /\ context = NoContext
  /\ outcomes = AllResolve

\* the guard and its callers
Next ==
  \/ \E v \in ProcessEnv : SetEnvironment(v)
  \/ CallGetCurrentEnvironment
  \/ \E a \in Actions : CallIsActionAllowed(a)
  \/ \E a \in Actions : CallAssertActionAllowed(a)

Spec == Init /\ [][Next]_vars

\* the page objects and flows, driven by a test
NextPages ==
  \/ \E v \in ProcessEnv : SetEnvironment(v)
  \/ \E u \in Urls : Navigate(u)
  \/ \E op \in SignInOps : StartSignIn(op)
  \/ StartSubmitPayment
  \/ StartFillPaymentForm
  \/ Resolve
  \/ Reject
  \/ \E visible \in BOOLEAN : Probe(visible)

SpecPages == Init /\ [][NextPages]_vars

\* one run of the test runner over the projects, ENVIRONMENT as the process got it
NextSuite == \E r \in Runs : RunTest(r)

SpecSuite == Init /\ [][NextSuite]_vars

\* the agent asked one query, again and again as time passes
InitRouter ==
  /\ ProcessStart
  /\ env = Unset
  /\ question \in Questions
  /\ context \in Contexts
  /\ outcomes = AllResolve

NextRouter ==
  \/ Ask
  \/ Tick

SpecRouter == InitRouter /\ [][NextRouter]_vars

\* the module of the wrapper loaded, no query made yet
InitQuota ==
  /\ ProcessStart
  /\ env = Unset
  /\ question = <<>>
  /\ context = NoContext
  /\ outcomes = AllResolve

\* the wrapper called by callers that do not wait for one another
NextQuota ==
  \/ \E query \in AgentQueries : costAwareAgent(query)
  \/ \E i \in 1..MaxInFlight, result \in ToolResults : Continue(i, result)
  \/ Midnight

SpecQuota == InitQuota /\ [][NextQuota]_vars

\* the wrapper called by one caller that awaits every call
NextQuotaSeq ==
  \/ \E query \in AgentQueries : SequentialCall(query)
  \/ \E result \in ToolResults : Continue(1, result)
  \/ Midnight

SpecQuotaSeq == InitQuota /\ [][NextQuotaSeq]_vars

\* the tests that generate a test customer, in parallel workers
NextData ==
  \/ \E prefix \in Prefixes : GenerateTestCustomer(prefix)
  \/ TickMillis

SpecData == InitQuota /\ [][NextData]_vars

\* the flows run against a site that behaves in one of the possible ways
InitJourney ==
  /\ ProcessStart
  /\ env = Unset
  /\ question = <<>>
  /\ context = NoContext
  /\ outcomes \in JourneyOutcomes

\* the flows, the validator and the tool called one after another
NextJourney ==
  \/ \E tier \in Tiers : SubscriptionSelectionFlowExecute(tier)
  \/ CallValidateSubscriptionJourney
  \/ StartTool
  \/ \E ok \in BOOLEAN : ToolStep(ok)
  \/ ToolValidate
  \/ \E ok \in BOOLEAN : ToolClose(ok)

SpecJourney == InitJourney /\ [][NextJourney]_vars

(***************************************************************************)
(* Properties of the guard (specification Spec)                            *)
(***************************************************************************)
\* the flag of a registered config that corresponds to an action
FlagOf(config, action) ==
  CASE action = "write"  -> config.allowWriteOperations
    [] action = "create" -> config.allowDataCreation
    [] action = "submit" -> config.allowFormSubmission

\* ENVIRONMENT holds a non-empty value that names no environment
Unrecognised(pe) == pe \notin {Unset, <<"">>, <<"staging">>, <<"production">>}

\* C1: under ENVIRONMENT=production isActionAllowed returns false for write,
\* create and submit, and assertActionAllowed throws for each of them an error
\* whose message contains the action name and the word "production".
C1_ProductionBlocks ==
  /\ (ret.op = "isActionAllowed" /\ ret.env = <<"production">>) => ret.allowed = FALSE
  /\ (ret.op = "assertActionAllowed" /\ ret.env = <<"production">>) =>
        /\ ret.threw
        /\ Includes(ret.message, ret.action)
        /\ Includes(ret.message, "production")

C1_Witness ==
  /\ ret.op = "assertActionAllowed"
  /\ ret.env = <<"production">>
  /\ ret.action = "submit"
  /\ ret.threw

\* C2: for each environment e of {staging, production} and each action a,
\* isActionAllowed(a) under ENVIRONMENT=e returns the flag of e's registered
\* config that corresponds to a, and the call changes neither ENVIRONMENT, the
\* warnings written, the page nor the call in flight.
C2_TableLookup ==
  /\ [](\A e \in Environment :
          (ret.op = "isActionAllowed" /\ ret.env = <<e>>) =>
             ret.allowed = FlagOf(environments[e], ret.action))
  /\ [][\A a \in Actions :
          (CallIsActionAllowed(a) /\ env \in {<<"staging">>, <<"production">>}) =>
             UNCHANGED <<env, warnings, task, url>>]_vars

C2_Witness ==
  /\ ret.op = "isActionAllowed"
  /\ ret.env = <<"production">>
  /\ ret.action = "create"
  /\ ret.allowed = FALSE

C5_ResolvedOnce ==
  ret.op = "getCurrentEnvironment" => firstEnv = <<ret.value>>

\* C8: when ENVIRONMENT holds no registered name, isActionAllowed returns true
\* for write, create and submit and assertActionAllowed does not throw.
C8_FallbackIsPermissive ==
  ret.env \notin {<<"staging">>, <<"production">>} =>
    /\ ret.op = "isActionAllowed" => ret.allowed
    /\ ret.op = "assertActionAllowed" => ~ret.threw

C8_Witness ==
  /\ ret.op = "assertActionAllowed"
  /\ ret.env = <<"bogus">>
  /\ ret.action = "submit"
  /\ ~ret.threw

(***************************************************************************)
(* Properties of the page objects (specification SpecPages)                *)
(***************************************************************************)
\* the interactions that submit data: a click on a submitting button, a fill
\* of a card field
Submitting ==
  Clicks \cup {"cardNumberInput.fill", "expiryInput.fill", "cvcInput.fill",
               "nameOnCardInput.fill", "cardFrame.cardnumber.fill",
               "cardFrame.exp-date.fill", "cardFrame.cvc.fill"}

\* C6: when submitPayment clicks the submit button, the environment that
\* getCurrentEnvironment resolves at that moment allows 'submit'.
C6_ClickUnderAllowingEnvironment ==
  (act.op = "submitPayment" /\ act.kind = "click") =>
     getCurrentEnvironment(act.actEnv) # "production"

\* C7: submitPayment, fillPaymentForm, clickContinue, submitEmail and
\* authenticateWithEmail, called under ENVIRONMENT=production, perform no
\* click or fill that submits data.
C7_NoSubmissionInProduction ==
  (/\ act.op \in {"submitPayment", "fillPaymentForm", "clickContinue", "submitEmail",
                  "authenticateWithEmail"}
   /\ act.callEnv = <<"production">>) =>
     act.target \notin Submitting

(***************************************************************************)
(* Properties of the test runner (specification SpecSuite)                 *)
(***************************************************************************)
\* C9: with ENVIRONMENT=production no test of the regression or e2e projects
\* executes its body.
C9_StagingOnlyTestsNeverRunInProduction ==
  env = <<"production">> =>
    \A r \in Runs :
      r[1].testDir \in {"./tests/regression", "./tests/e2e"} =>
         RunId(r) \notin results.executed

(***************************************************************************)
(* Properties of the routing function (specification SpecRouter)           *)
(***************************************************************************)
\* C10: a query that matches both a cache-sufficient pattern and a
\* browser-required pattern is decided by the cache-sufficient list:
\* shouldUse is false, with the cache reason, whatever the context.
C10_CacheListFirst ==
  (/\ decision.asked
   /\ \E pat \in CACHE_SUFFICIENT_PATTERNS : Test(pat, question)
   /\ \E pat \in BROWSER_REQUIRED_PATTERNS : Test(pat, question)) =>
     /\ decision.shouldUse = FALSE
     /\ decision.reason =
          <<"Question can be answered from known data without browser check">>

C10_Witness ==
  /\ decision.asked
  /\ question = <<"Price", "BROKEN">>
  /\ context.urgency = "high"
  /\ decision.shouldUse = FALSE

MatchesCache(q) == \E pat \in CACHE_SUFFICIENT_PATTERNS : Test(pat, q)

MatchesBrowser(q) == \E pat \in BROWSER_REQUIRED_PATTERNS : Test(pat, q)

\* a timestamp written when the clock read t
Iso(t) == [s |-> "iso", t |-> t]

\* a step in which shouldUseBrowserAutomation is evaluated: the clock stands
\* still and a decision comes out
Evaluated == now' = now /\ decision'.asked

\* C11: the lexical match outranks the context.  A question that matches a
\* browser-required pattern and no cache-sufficient pattern gets shouldUse =
\* true in every context, a fresh cached result included; a question that
\* matches a cache-sufficient pattern gets shouldUse = false, high urgency
\* included.
C11_LexicalOutranksContext ==
  decision.asked =>
    /\ (MatchesBrowser(question) /\ ~MatchesCache(question)) =>
          /\ decision.shouldUse = TRUE
          /\ decision.reason =
               <<"Question requires live validation of journey functionality">>
    /\ MatchesCache(question) => decision.shouldUse = FALSE

\* a browser question asked with a cached result written at this very instant
C11_Witness ==
  /\ decision.asked
  /\ now = 0
  /\ question = <<"check", "journey">>
  /\ context = [urgency |-> "low", lastCheckTimestamp |-> Iso(0), cachedHealth |-> "true"]
  /\ decision.shouldUse = TRUE

\* C12: "is it working", asked when the last check is 3 minutes old and a
\* cached result is available, is routed to the cheap path.
C12_IsItWorkingCheap ==
  [][(/\ Evaluated
      /\ question = IsItWorking
      /\ context.lastCheckTimestamp = Iso(0)
      /\ now = 3 * TimeResolution
      /\ context.cachedHealth = "true") => decision'.shouldUse = FALSE]_vars

\* the age of the context's timestamp is below five minutes (a timestamp in
\* the future has a negative age)
Fresh(ctx, t) ==
  /\ ctx.lastCheckTimestamp.s = "iso"
  /\ t - ctx.lastCheckTimestamp.t < FreshMinutes * TimeResolution

\* C13 as stated: for a question that matches no pattern, the cheap path is
\* taken exactly when urgency is not high, the timestamp is present and
\* less than 5 minutes old and the cached result is true.
C13_CheapIffCachedTrue ==
  [][(Evaluated /\ ~MatchesCache(question) /\ ~MatchesBrowser(question)) =>
       (decision'.shouldUse = FALSE <=>
          /\ context.urgency # "high"
          /\ Fresh(context, now)
          /\ context.cachedHealth = "true")]_vars

\* C13: for a question that matches no pattern, the cheap path is taken
\* exactly when urgency is not high, lastCheckTimestamp is a non-empty string
\* that parses as a date less than 5 minutes before now, and cachedHealth is
\* defined (true or false); the reason then cites the rounded minutes.
\* Otherwise the expensive path is taken: with the high-urgency reason when
\* urgency is high, with the default reason when not.
C13_CheapIffCachedDefined ==
  [][(Evaluated /\ ~MatchesCache(question) /\ ~MatchesBrowser(question)) =>
       LET cheap == /\ context.urgency # "high"
                    /\ Fresh(context, now)
                    /\ context.cachedHealth \in {"true", "false"}
       IN  /\ decision'.shouldUse = ~cheap
           /\ cheap => decision'.reason =
                 <<"Recent check (", RoundedMinutes(now - context.lastCheckTimestamp.t),
                   " min ago) available">>
           /\ context.urgency = "high" => decision'.reason =
                 <<"High urgency requires fresh browser validation">>
           /\ (~cheap /\ context.urgency # "high") => decision'.reason =
                 <<"Default to browser check for authoritative answer">>]_vars

\* a cached result of false, four and a half minutes old, answers from the cache
C13_Witness ==
  /\ decision.asked
  /\ question = <<"is">>
  /\ context = [urgency |-> "low", lastCheckTimestamp |-> Iso(0), cachedHealth |-> "false"]
  /\ now = FreshMinutes * TimeResolution - 1
  /\ decision.shouldUse = FALSE
  /\ decision.reason = <<"Recent check (", RoundedMinutes(now), " min ago) available">>

\* C14: two evaluations of the same query and context return the same
\* decision and reason.
C14_Deterministic ==
  [][(decision.asked /\ decision'.asked) => decision' = decision]_vars

\* C15: every evaluation returns a decision with a non-empty reason, whatever
\* the question and the context (none, partial, a timestamp that does not
\* parse or lies in the future); the empty question without context gets the
\* expensive path with the default reason.
C15_Total ==
  decision.asked =>
    /\ decision.shouldUse \in BOOLEAN
    /\ decision.reason # <<>>
    /\ (question = <<>> /\ context = NoContext) =>
          /\ decision.shouldUse = TRUE
          /\ decision.reason = <<"Default to browser check for authoritative answer">>

C15_Witness ==
  /\ decision.asked
  /\ question = <<>>
  /\ context = NoContext
  /\ decision.shouldUse = TRUE

(***************************************************************************)
(* Properties of the cost-aware wrapper (SpecQuota, SpecQuotaSeq)          *)
(***************************************************************************)
\* the latest step was a costAwareAgent call that passed the limit check
Admitted == Len(calls') = Len(calls) + 1

\* the latest step was a costAwareAgent call answered with the forced response
Rejected ==
  /\ calls' = calls
  /\ response'.op = "costAwareAgent"
  /\ response'.res = LimitResponse(costTracker')

\* the latest step was the return of a suspended costAwareAgent call
Returned == Len(calls') = Len(calls) - 1

\* the path the agent's routing function sends a query to
Routed(query) == shouldUseBrowserAutomation(query.question, query.context, now)

\* the suspended calls whose browser check was started on day d
StartedOn(d) == {i \in 1..Len(calls) : calls[i].day = d /\ calls[i].decision.shouldUse}

\* C16: browserChecksToday never exceeds maxBrowserChecksPerDay, and no more
\* than maxBrowserChecksPerDay browser checks are in progress that were
\* started on the current day, also when calls overlap at the await.
C16_NeverOverLimit ==
  /\ costTracker.browserChecksToday <= costTracker.maxBrowserChecksPerDay
  /\ Cardinality(StartedOn(day)) <= costTracker.maxBrowserChecksPerDay

C18_DailyReset ==
  [][((Admitted \/ Rejected) /\ costTracker.lastReset # day) =>
       /\ costTracker'.browserChecksToday = 0
       /\ costTracker'.lastReset = day
       /\ Admitted]_vars

\* a browser check admitted on the day after the limit was reached
C18_Witness ==
  /\ discarded >= costTracker.maxBrowserChecksPerDay
  /\ costTracker.lastReset = day
  /\ costTracker.browserChecksToday = 0
  /\ Len(calls) = 1
  /\ calls[1].day = day
  /\ calls[1].decision.shouldUse

\* two responses agree on everything but the time they took
SameAnswer(a, b) ==
  /\ a.answer = b.answer
  /\ a.usedBrowserAutomation = b.usedBrowserAutomation
  /\ a.reasoning = b.reasoning
  /\ a.data = b.data
  /\ a.cost.browserUsed = b.cost.browserUsed

\* C19: the wrapper only downgrades.  When its response is none of those
\* subscriptionHealthAgent can give for the query, the Router had chosen the
\* browser and the response uses none; a query the Router sends to the cheap
\* path gets the agent's answer and reasoning, limit reached or not.
C19_OnlyDowngrades ==
  response.op = "costAwareAgent" =>
    LET d == Routed(response.query)
        same == \E result \in ToolResults :
                  SameAnswer(response.res, AgentResponse(response.query, d, result))
    IN  /\ ~same => (d.shouldUse /\ ~response.res.usedBrowserAutomation)
        /\ ~d.shouldUse =>
              /\ response.res.answer = generateCachedAnswer(response.query.question)
              /\ response.res.reasoning = d.reason

\* C20: a call rejected at the limit on the day of lastReset, and a call
\* whose answer did not use the browser, leave browserChecksToday as it was.
C20_CounterUnchanged ==
  [][/\ (Rejected /\ costTracker.lastReset = day) =>
          costTracker'.browserChecksToday = costTracker.browserChecksToday
     /\ (Returned /\ ~response'.res.usedBrowserAutomation) =>
          costTracker' = costTracker]_vars

\* a price question answered from known data after one browser check
C20_Witness ==
  /\ response.op = "costAwareAgent"
  /\ response.query.question = <<"Price">>
  /\ response.res.answer = <<"DailyMail+ subscription pricing:">>
  /\ response.res.usedBrowserAutomation = FALSE
  /\ costTracker.browserChecksToday = 1
  /\ costTracker.lastReset = day

(***************************************************************************)
(* Properties of the test data (SpecData)                                  *)
(***************************************************************************)
\* C21: two calls of generateTestCustomer with the same prefix never return
\* the same email, whichever worker makes them and however close in time.
C21_DistinctEmails ==
  \A i, j \in 1..Len(customers) :
    (i # j /\ customers[i].email[1] = customers[j].email[1]) =>
       customers[i].email # customers[j].email

(***************************************************************************)
(* Properties of the flows, the validator and the tool (SpecJourney)       *)
(***************************************************************************)
ToolCompleted == out.op = "validateSubscriptionJourneyTool"

\* C22: validateSubscriptionJourneyTool never throws, and when launch,
\* navigation or validation failed (its catch block ran, or the validation
\* came back unhealthy) it returns healthy = false with a non-empty errors
\* list.
C22_ToolNeverThrows ==
  ToolCompleted =>
    /\ ~out.threw
    /\ out.output.caught => ~out.output.healthy
    /\ ~out.output.healthy => out.output.errors # <<>>

\* C23: execute never throws; success = true comes only with pageReached =
\* 'signin', the requested tier and no errors, and exactly when every step
\* resolved; a failure has success = false, tier = null, a non-empty errors
\* list, and pageReached = 'error' when goto failed, 'subscription' when a
\* later step failed.
C23_ExecuteResult ==
  out.op = "execute" =>
    LET r == out.result
        o == outcomes.execute
    IN  /\ ~out.threw
        /\ r.success <=> (o.goto /\ o.loaded /\ o.select)
        /\ r.success =>
              /\ r.pageReached = "signin"
              /\ r.tier = out.tier
              /\ r.errors = <<>>
        /\ ~r.success =>
              /\ r.tier = "null"
              /\ r.errors # <<>>
              /\ r.pageReached = IF o.goto THEN "subscription" ELSE "error"

\* the basic tier's CTA could not be clicked
C23_Witness ==
  /\ out.op = "execute"
  /\ out.tier = "basic"
  /\ outcomes.execute = [goto |-> TRUE, loaded |-> TRUE, select |-> FALSE]
  /\ out.result = buildResult(FALSE, "null", "subscription", <<TimeoutMessage>>)

\* C25: validateSubscriptionJourney reports healthy = true exactly when the
\* returned stages have subscriptionPage.reachable, premiumTierVisible and
\* ctasWorking and signInPage.reachable all true.
C25_HealthyIffFourStages ==
  out.op = "validateSubscriptionJourney" =>
    (out.result.healthy <=>
       /\ out.result.stages.subscriptionPage.reachable
       /\ out.result.stages.subscriptionPage.premiumTierVisible
       /\ out.result.stages.subscriptionPage.ctasWorking
       /\ out.result.stages.signInPage.reachable)

\* the CTAs alone are missing: the journey is not healthy
C25_Witness ==
  /\ out.op = "validateSubscriptionJourney"
  /\ out.result.stages.subscriptionPage.reachable
  /\ out.result.stages.subscriptionPage.premiumTierVisible
  /\ ~out.result.stages.subscriptionPage.ctasWorking
  /\ out.result.stages.signInPage.reachable
  /\ ~out.result.healthy

\* C26: a result of validateSubscriptionJourney with healthy = true has an
\* empty errors list.
C26_HealthyHasNoErrors ==
  (out.op = "validateSubscriptionJourney" /\ out.result.healthy) => out.result.errors = <<>>

C24_AuthenticateResult ==
  ret.op = "authenticateWithEmail" =>
    /\ ~ret.threw
    /\ ret.result.success =>
          /\ ret.result.authMethod = "email"
          /\ ret.result.errors = <<>>
          /\ ret.result.pageState \in {"signin", "password", "verification"}
    /\ ~ret.result.success =>
          /\ ret.result.authMethod = "null"
          /\ ret.result.pageState = "error"
          /\ Len(ret.result.errors) = 1

\* a step of the flow timed out
C24_Witness ==
  /\ ret.op = "authenticateWithEmail"
  /\ ~ret.threw
  /\ ret.result = [success |-> FALSE, authMethod |-> "null", pageState |-> "error",
                   errors |-> <<TimeoutMessage>>]

\* the URL names production, by the word or by an indicator: a staging
\* indicator overrides a production indicator, and without any indicator the
\* environment decides
NamesProduction(u, pe) ==
  \/ Includes(u, "production")
  \/ /\ ~\E ind \in stagingIndicators : Includes(u, ind)
     /\ \/ \E ind \in prodIndicators : Includes(u, ind)
        \/ ~getEnvironmentConfig(pe).allowFormSubmission

UnderBaseUrl(u, e) ==
  /\ Len(u) >= Len(environments[e].baseUrl)
  /\ SubSeq(u, 1, Len(environments[e].baseUrl)) = environments[e].baseUrl

\* C28: in the staging environment, fillPaymentForm called on a page under
\* staging's baseUrl passes both safety checks and goes on to fill the form.
C28_StagingBaseUrlFills ==
  [][(/\ task = Idle
      /\ task'.op = "fillPaymentForm" \/ ret'.op = "fillPaymentForm"
      /\ getCurrentEnvironment(env) = "staging"
      /\ UnderBaseUrl(url, "staging")) =>
         (task'.op = "fillPaymentForm" /\ ~ret'.threw)]_vars

====
